---- MODULE Spec2Model ----
(***************************************************************************)
(* Project Briareus: the orchestration state machine.                      *)
(*                                                                         *)
(* One task invocation of the LangGraph graph built by graph/builder.py:   *)
(*   plan -> route -> [researcher|coder|writer] -> review -> route -> ...  *)
(*        -> synthesize -> END                                             *)
(* The language-model calls are the nondeterministic inputs: the plan the  *)
(* planner model returns, the RouteDecision the router model returns and   *)
(* the ReviewResult the reviewer model returns.                            *)
(***************************************************************************)
EXTENDS Integers, Sequences, FiniteSets, TLC

\* ------------------------------------------------------------------------
\* Orchestrator limits (config/settings.py).  The limits are read from the
\* environment; the model fixes one configuration in which the iteration
\* ceiling is below the plan cap, so that a plan can outlast the ceiling,
\* and above MAX_RETRIES_PER_STEP + 3, so that the retry ceiling is hit
\* off the reviewer's fast path on the first step and on a later one.
\* ------------------------------------------------------------------------
MAX_ITERATIONS == 6
MAX_RETRIES_PER_STEP == 2
MAX_PLAN_STEPS == 7

\* ------------------------------------------------------------------------
\* Bounds of the model.
\* ------------------------------------------------------------------------
\* Longest subtask list the planner model returns.
MaxProviderSteps == 8
\* Largest stride of the agent assignment of a returned plan.
MaxStride == 1
\* How far beyond MAX_ITERATIONS and MAX_PLAN_STEPS the counters of a state
\* handed to a single node go.
MaxOver == 1

\* ------------------------------------------------------------------------
\* Values
\* ------------------------------------------------------------------------
\* AgentName (state/schemas.py) and the keys of AGENT_REGISTRY.
Agents == {"researcher", "coder", "writer"}

\* Variant: the decision schema also admits "__end__", as the next_agent
\* field of OrchestratorState does.
RouteTargets_WithEnd == Agents \cup {"synthesize", "__end__"}

\* RouteDecision.next_agent.
RouteTargets == Agents \cup {"synthesize"}

\* plan = None and last_review = None of the initial state.
NoPlan == [goal |-> "none", subtasks |-> << >>]
NoReview == [quality |-> "none", feedback |-> "none", should_retry |-> FALSE,
             retry_instructions |-> "None"]

\* What _get_last_agent_output returns when no list has an entry.
NoOutput == [agent |-> "unknown", output |-> 0]

\* A task brief: where its text comes from, and for a subtask description
\* the id of the subtask.
Brief(src, id) == [src |-> src, id |-> id]

\* SubTask i of a plan whose agents are the sequence ags: ids are 1-indexed
\* step numbers; the description is identified by the id.
MkSubtasks(ags) == [i \in 1..Len(ags) |-> [id |-> i, agent |-> ags[i]]]

\* The agent of step i of a plan of stride k: stride 0 gives every step to
\* one agent, stride 1 rotates through the agents.
StrideAgent(k, i) ==
    LET r == (k * (i - 1)) % 3
    IN IF r = 0 THEN "researcher" ELSE IF r = 1 THEN "coder" ELSE "writer"

\* The subtask lists the planner model may return: every length up to
\* MaxProviderSteps (the empty plan included), every stride up to MaxStride.
ProviderPlans ==
    { MkSubtasks([i \in 1..n |-> StrideAgent(k, i)])
        : n \in 0..MaxProviderSteps, k \in 0..MaxStride }

\* The ReviewResult values the reviewer model may return.
ProviderReviews ==
    [quality : {"good", "acceptable", "needs_retry"},
     feedback : {"provider"},
     should_retry : BOOLEAN,
     retry_instructions : {"None", "revised"}]

\* Most tool calls in one model response, and most tool calls of one
\* _execute that fail (the tool raises, or the name is no bound tool).
MaxToolCalls == 2
MaxToolFailures == 1

VARIABLES
    pc,                 \* the graph node that runs next ("END" when done)
    task,               \* state["task"]
    plan,               \* state["plan"]
    current_step,       \* state["current_step"]
    next_agent,         \* state["next_agent"]
    current_task_brief, \* state["current_task_brief"]
    agent_outputs,      \* state["agent_outputs"]: a dict in insertion order,
                        \*   a sequence of [name, outs] with outs a sequence
    iteration_count,    \* state["iteration_count"]
    retry_count,        \* state["retry_count"]
    last_review,        \* state["last_review"]
    final_output,       \* state["final_output"]
    tier,               \* which return of route_node the last route took
    reviewed,           \* (agent_name, agent_output) of the last review_node
    provider_review,    \* the reviewer model's answer in the last review_node
                        \*   (NoReview when it was not called)
    llm_calls,          \* number of model calls made by each supervisor node
    returned_plan,      \* the subtask list the planner model returned
    last_produced,      \* history: the worker result produced last
    since_advance,      \* history: worker invocations since current_step
                        \*   last advanced
    invoked,            \* history: invocations of each worker variant
    granted,            \* history: reviews that stored should_retry = true
    error,              \* the exception that ended the run ("none": none)
    to_build,           \* build_graph: the worker names still to be given a
                        \*   node by _make_agent_node
    nodes,              \* build_graph: the worker nodes added
    running,            \* the agent whose _execute runs ("none": none)
    xpc,                \* the position in _execute
    messages,           \* _call_with_tools: the transcript
    round,              \* _call_with_tools: the pass of the for loop
    tool_queue,         \* _call_with_tools: response.tool_calls not yet run
    raw,                \* what _call_with_tools returned
    provider_calls,     \* model calls of this _execute, by bound model
    executed,           \* what _execute returned
    compiled_graph,     \* builder._compiled_graph (0: None)
    builds,             \* the number of build_graph calls made so far
    invocations         \* concurrent calls of main.run: of each its position,
                        \*   its local graph and its own OrchestratorState

\* The state of one run of the graph and what is observed of it.
runVars == << pc, task, plan, current_step, next_agent, current_task_brief,
              agent_outputs, iteration_count, retry_count, last_review,
              final_output, tier, reviewed, provider_review, llm_calls,
              returned_plan, last_produced, since_advance, invoked, granted >>

\* What a run of the graph that raises nothing leaves alone.
restVars == << error, to_build, nodes, running, xpc, messages, round,
              tool_queue, raw, provider_calls, executed, compiled_graph,
              builds, invocations >>

vars == << runVars, restVars >>

\* The graph is built with its three worker nodes, no exception was raised
\* and no agent is inside _execute.
AtRest ==
    /\ error = "none"
    /\ to_build = << >>
    /\ nodes = Agents
    /\ running = "none"
    /\ xpc = "idle"
    /\ messages = << >>
    /\ round = 0
    /\ tool_queue = << >>
    /\ raw = [kind |-> "none", msg |-> 0]
    /\ provider_calls = [with_tools |-> 0, structured |-> 0]
    /\ executed = [by |-> "none", raw |-> [kind |-> "none", msg |-> 0]]
    /\ compiled_graph = 1
    /\ builds = 1
    /\ invocations = << >>

\* ------------------------------------------------------------------------
\* main.run: initial_state
\* ------------------------------------------------------------------------
Init ==
    /\ pc = "plan"
    /\ task = "task"
    /\ plan = NoPlan
    /\ current_step = 0
    /\ next_agent = "researcher"
    /\ current_task_brief = Brief("empty", 0)
    /\ agent_outputs = << >>
    /\ iteration_count = 0
    /\ retry_count = 0
    /\ last_review = NoReview
    /\ final_output = ""
    /\ tier = "none"
    /\ reviewed = NoOutput
    /\ provider_review = NoReview
    /\ llm_calls = [planner |-> 0, router |-> 0, reviewer |-> 0, synthesizer |-> 0]
    /\ returned_plan = << >>
    /\ last_produced = NoOutput
    /\ since_advance = 0
    /\ invoked = [a \in Agents |-> 0]
    /\ granted = 0
    /\ AtRest

\* ------------------------------------------------------------------------
\* graph/builder.py: the fixed edges of build_graph
\* ------------------------------------------------------------------------
\* Variant: the worker nodes wired straight back to route.
GraphEdge_NoReview(node) ==
    IF node = "plan" THEN "route"
    ELSE IF node \in Agents THEN "route"
    ELSE IF node = "review" THEN "route"
    ELSE "END"

\* add_edge: plan -> route, each agent -> review, review -> route,
\* synthesize -> END.
GraphEdge(node) ==
    IF node = "plan" THEN "route"
    ELSE IF node \in Agents THEN "review"
    ELSE IF node = "review" THEN "route"
    ELSE "END"

\* ------------------------------------------------------------------------
\* supervisor/planner.py
\* ------------------------------------------------------------------------
\* Variant: the slice keeps the last MAX_PLAN_STEPS subtasks.
Truncate_KeepsTail(subtasks) ==
    IF Len(subtasks) > MAX_PLAN_STEPS
    THEN SubSeq(subtasks, Len(subtasks) - MAX_PLAN_STEPS + 1, Len(subtasks))
    ELSE subtasks

\* plan.subtasks[:MAX_PLAN_STEPS] when the plan is too long.
Truncate(subtasks) ==
    IF Len(subtasks) > MAX_PLAN_STEPS
    THEN SubSeq(subtasks, 1, MAX_PLAN_STEPS)
    ELSE subtasks

\* Variant: the delta holds the plan alone.
Plan_NoReset(p) ==
    /\ pc = "plan"
    /\ plan' = [goal |-> "goal", subtasks |-> Truncate(p)]
    /\ llm_calls' = [llm_calls EXCEPT !.planner = @ + 1]
    /\ returned_plan' = p
    /\ pc' = GraphEdge("plan")
    /\ UNCHANGED << task, current_step, iteration_count, retry_count,
                    agent_outputs, next_agent, current_task_brief, last_review,
                    final_output, tier, reviewed, provider_review, last_produced,
                    since_advance, invoked, granted >>

\* plan_node: one model call; the returned delta resets the loop state.
Plan(p) ==
    /\ pc = "plan"
    /\ plan' = [goal |-> "goal", subtasks |-> Truncate(p)]
    /\ current_step' = 0
    /\ iteration_count' = 0
    /\ retry_count' = 0
    /\ agent_outputs' = << >>
    /\ llm_calls' = [llm_calls EXCEPT !.planner = @ + 1]
    /\ returned_plan' = p
    /\ pc' = GraphEdge("plan")
    /\ UNCHANGED << task, next_agent, current_task_brief, last_review,
                    final_output, tier, reviewed, provider_review, last_produced,
                    since_advance, invoked, granted >>

\* ------------------------------------------------------------------------
\* supervisor/router.py
\* ------------------------------------------------------------------------
\* The RouteDecision values the router model may return.
RouteDecisions ==
    [next_agent : RouteTargets, task_brief : {Brief("task_brief", 0)}]

\* Variant: the ceiling compared with > instead of >=.
IterationCeiling_Strict(it) == it > MAX_ITERATIONS

\* Safety valve: iteration_count >= MAX_ITERATIONS.
IterationCeiling(it) == it >= MAX_ITERATIONS

\* Variant: plan exhaustion compared with > instead of >=.
PlanComplete_Strict(p, cs) == p # NoPlan /\ cs > Len(p.subtasks)

\* plan and current_step >= len(plan.subtasks).
PlanComplete(p, cs) == p # NoPlan /\ cs >= Len(p.subtasks)

\* last_review and last_review.should_retry.
PendingRetry(lr) == lr # NoReview /\ lr.should_retry

\* Variant: the lookup takes the step after the current one.
RetryIndex_NextStep(cs) == (cs + 1) + 1

\* max(0, current_step - 1), as an index of the 1-indexed sequence.
RetryIndex(cs) == (IF cs - 1 > 0 THEN cs - 1 ELSE 0) + 1

\* Variant: the ceiling checked after the plan and the pending retry.
RouteTier_CeilingLast(it, p, cs, lr) ==
    IF PlanComplete(p, cs) THEN "plan_done"
    ELSE IF PendingRetry(lr) THEN "retry"
    ELSE IF IterationCeiling(it) THEN "ceiling"
    ELSE "delegated"

\* Variant: the pending retry is not looked at.
RouteTier_NoRetry(it, p, cs, lr) ==
    IF IterationCeiling(it) THEN "ceiling"
    ELSE IF PlanComplete(p, cs) THEN "plan_done"
    ELSE "delegated"

\* The return of route_node that is taken: the checks in source order.
RouteTier(it, p, cs, lr) ==
    IF IterationCeiling(it) THEN "ceiling"
    ELSE IF PlanComplete(p, cs) THEN "plan_done"
    ELSE IF PendingRetry(lr) THEN "retry"
    ELSE "delegated"

\* last_review.retry_instructions or subtask.description
RetryBrief(lr, subtask) ==
    IF lr.retry_instructions \notin {"None", ""}
    THEN Brief("retry_instructions", 0)
    ELSE Brief("description", subtask.id)

\* Variant: route counts the iteration it is about to dispatch.
RoutedIteration_Counted(it) == it + 1

\* "iteration_count": iteration_count of every delta route_node returns.
RoutedIteration(it) == it

\* Variant: the safety valve ends the run instead of forcing synthesis.
route_node_CeilingEnds(it, p, cs, lr, d) ==
    LET t == RouteTier(it, p, cs, lr)
    IN  IF t = "ceiling"
        THEN [next_agent |-> "__end__",
              current_task_brief |-> Brief("forced_synthesis", 0),
              iteration_count |-> RoutedIteration(it)]
        ELSE IF t = "plan_done"
        THEN [next_agent |-> "synthesize",
              current_task_brief |-> Brief("plan_complete", 0),
              iteration_count |-> RoutedIteration(it)]
        ELSE IF t = "retry"
        THEN [next_agent |-> p.subtasks[RetryIndex(cs)].agent,
              current_task_brief |-> RetryBrief(lr, p.subtasks[RetryIndex(cs)]),
              iteration_count |-> RoutedIteration(it)]
        ELSE [next_agent |-> d.next_agent,
              current_task_brief |-> d.task_brief,
              iteration_count |-> RoutedIteration(it)]

\* The delta route_node returns; d is the router model's answer, used by
\* the last return only.
route_node(it, p, cs, lr, d) ==
    LET t == RouteTier(it, p, cs, lr)
    IN  IF t = "ceiling"
        THEN [next_agent |-> "synthesize",
              current_task_brief |-> Brief("forced_synthesis", 0),
              iteration_count |-> RoutedIteration(it)]
        ELSE IF t = "plan_done"
        THEN [next_agent |-> "synthesize",
              current_task_brief |-> Brief("plan_complete", 0),
              iteration_count |-> RoutedIteration(it)]
        ELSE IF t = "retry"
        THEN [next_agent |-> p.subtasks[RetryIndex(cs)].agent,
              current_task_brief |-> RetryBrief(lr, p.subtasks[RetryIndex(cs)]),
              iteration_count |-> RoutedIteration(it)]
        ELSE [next_agent |-> d.next_agent,
              current_task_brief |-> d.task_brief,
              iteration_count |-> RoutedIteration(it)]

\* Variant: the edge sends every value that is no worker to END.
route_conditional_edge_NoSynth(na) == IF na \in Agents THEN na ELSE "END"

\* route_conditional_edge: the node the graph runs after route.
route_conditional_edge(na) ==
    IF na \in Agents THEN na
    ELSE IF na = "synthesize" THEN "synthesize"
    ELSE "END"

\* The route node followed by its conditional edge.
Route ==
    /\ pc = "route"
    /\ \E d \in RouteDecisions :
         LET t == RouteTier(iteration_count, plan, current_step, last_review)
             delta == route_node(iteration_count, plan, current_step, last_review, d)
         IN  /\ next_agent' = delta.next_agent
             /\ current_task_brief' = delta.current_task_brief
             /\ iteration_count' = delta.iteration_count
             /\ tier' = t
             /\ llm_calls' = IF t = "delegated"
                             THEN [llm_calls EXCEPT !.router = @ + 1]
                             ELSE llm_calls
             /\ pc' = route_conditional_edge(delta.next_agent)
    /\ UNCHANGED << task, plan, current_step, agent_outputs, retry_count,
                    last_review, final_output, reviewed, provider_review,
                    returned_plan, last_produced, since_advance, invoked,
                    granted >>

\* ------------------------------------------------------------------------
\* graph/builder.py: _make_agent_node.agent_node
\* ------------------------------------------------------------------------
\* The keys of the dict, in insertion order.
Keys(outputs) == { outputs[i].name : i \in 1..Len(outputs) }

\* Variant: the list of the agent is replaced by the new result alone.
AppendOutput_Overwrite(outputs, name, result) ==
    IF name \in Keys(outputs)
    THEN [i \in 1..Len(outputs) |->
            IF outputs[i].name = name
            THEN [outputs[i] EXCEPT !.outs = << result >>]
            ELSE outputs[i]]
    ELSE Append(outputs, [name |-> name, outs |-> << result >>])

\* Variant: a result is stored for an agent that has no list yet, and
\* dropped for one that has.
AppendOutput_FirstOnly(outputs, name, result) ==
    IF name \in Keys(outputs)
    THEN outputs
    ELSE Append(outputs, [name |-> name, outs |-> << result >>])

\* existing_outputs[agent_name] = existing_outputs[agent_name] + [result]:
\* a new key goes to the end of the dict, an existing key keeps its place.
AppendOutput(outputs, name, result) ==
    IF name \in Keys(outputs)
    THEN [i \in 1..Len(outputs) |->
            IF outputs[i].name = name
            THEN [outputs[i] EXCEPT !.outs = Append(@, result)]
            ELSE outputs[i]]
    ELSE Append(outputs, [name |-> name, outs |-> << result >>])

\* Variant: an invocation counts twice.
NextIteration_Twice(it) == it + 2

\* iteration_count + 1 of the returned delta.
NextIteration(it) == it + 1

\* Variant: the node also takes the first subtask off the plan.
Worker_DropsSubtask(a) ==
    /\ pc = a
    /\ LET result == iteration_count + 1
       IN  /\ agent_outputs' = AppendOutput(agent_outputs, a, result)
           /\ last_produced' = [agent |-> a, output |-> result]
    /\ plan' = [plan EXCEPT !.subtasks = Tail(@)]
    /\ iteration_count' = NextIteration(iteration_count)
    /\ since_advance' = since_advance + 1
    /\ invoked' = [invoked EXCEPT ![a] = @ + 1]
    /\ pc' = GraphEdge(a)
    /\ UNCHANGED << task, current_step, next_agent, current_task_brief,
                    retry_count, last_review, final_output, tier, reviewed,
                    provider_review, llm_calls, returned_plan, granted >>

\* The node of agent a; its result is identified by the number of the
\* invocation that produced it.
Worker(a) ==
    /\ pc = a
    /\ LET result == iteration_count + 1
       IN  /\ agent_outputs' = AppendOutput(agent_outputs, a, result)
           /\ last_produced' = [agent |-> a, output |-> result]
    /\ iteration_count' = NextIteration(iteration_count)
    /\ since_advance' = since_advance + 1
    /\ invoked' = [invoked EXCEPT ![a] = @ + 1]
    /\ pc' = GraphEdge(a)
    /\ UNCHANGED << task, plan, current_step, next_agent, current_task_brief,
                    retry_count, last_review, final_output, tier, reviewed,
                    provider_review, llm_calls, returned_plan, granted >>

\* ------------------------------------------------------------------------
\* supervisor/reviewer.py
\* ------------------------------------------------------------------------
\* The indexes of the keys whose list is not empty.
NonEmpty(outputs) == { i \in 1..Len(outputs) : Len(outputs[i].outs) > 0 }

\* _get_last_agent_output: the keys in reversed insertion order, the first
\* non-empty list, its last entry.
GetLastAgentOutput(outputs) ==
    IF NonEmpty(outputs) = {}
    THEN NoOutput
    ELSE LET i == CHOOSE j \in NonEmpty(outputs) :
                    \A k \in NonEmpty(outputs) : k <= j
         IN  [agent |-> outputs[i].name,
              output |-> outputs[i].outs[Len(outputs[i].outs)]]

\* Variant: the fast path compared with the ceiling itself.
BudgetExhausted_Late(it) == it >= MAX_ITERATIONS

\* Variant: no fast path, every review consults the model.
BudgetExhausted_Off(it) == FALSE

\* Fast path: iteration_count >= MAX_ITERATIONS - 1.
BudgetExhausted(it) == it >= MAX_ITERATIONS - 1

\* The review the fast path stores.
AutoAccepted ==
    [quality |-> "acceptable", feedback |-> "auto_accepted",
     should_retry |-> FALSE, retry_instructions |-> "None"]

\* Variant: the retry ceiling compared with > instead of >=.
RetryLimitHit_Strict(review, rc) ==
    review.should_retry /\ rc > MAX_RETRIES_PER_STEP

\* review.should_retry and retry_count >= MAX_RETRIES_PER_STEP
RetryLimitHit(review, rc) == review.should_retry /\ rc >= MAX_RETRIES_PER_STEP

\* Variant: the retry limit is logged but the review is stored as returned.
EnforceRetryLimit_LogOnly(review, rc) == review

\* Enforce retry limits: the review as stored.
EnforceRetryLimit(review, rc) ==
    IF RetryLimitHit(review, rc)
    THEN [review EXCEPT !.should_retry = FALSE,
                        !.quality = "acceptable",
                        !.feedback = "provider+retry_limit_note"]
    ELSE review

\* Variants: retry_count kept, not reset, on an accepted review; the step
\* advanced on every review; the step never advanced by a delegated review.
NewRetryCount_NoReset(review, rc) == IF review.should_retry THEN rc + 1 ELSE rc
NewStep_Always(review, cs) == cs + 1
NewStep_Stuck(review, cs) == cs

\* new_retry_count and new_step.
NewRetryCount(review, rc) == IF review.should_retry THEN rc + 1 ELSE 0
NewStep(review, cs) == IF review.should_retry THEN cs ELSE cs + 1

\* The delta review_node returns; r is the reviewer model's answer, used
\* only off the fast path.
review_node(it, rc, cs, r) ==
    IF BudgetExhausted(it)
    THEN [last_review |-> AutoAccepted,
          retry_count |-> 0,
          current_step |-> cs + 1]
    ELSE LET review == EnforceRetryLimit(r, rc)
         IN  [last_review |-> review,
              retry_count |-> NewRetryCount(review, rc),
              current_step |-> NewStep(review, cs)]

\* Variant: the review counts as an iteration of the loop.
Review_CountsIteration ==
    /\ pc = "review"
    /\ reviewed' = GetLastAgentOutput(agent_outputs)
    /\ \E r \in ProviderReviews :
         LET delta == review_node(iteration_count, retry_count, current_step, r)
         IN  /\ last_review' = delta.last_review
             /\ retry_count' = delta.retry_count
             /\ current_step' = delta.current_step
             /\ since_advance' = IF delta.current_step # current_step
                                 THEN 0 ELSE since_advance
             /\ provider_review' = IF BudgetExhausted(iteration_count)
                                   THEN NoReview ELSE r
             /\ granted' = IF delta.last_review.should_retry
                           THEN granted + 1 ELSE granted
    /\ llm_calls' = IF BudgetExhausted(iteration_count)
                    THEN llm_calls
                    ELSE [llm_calls EXCEPT !.reviewer = @ + 1]
    /\ iteration_count' = NextIteration(iteration_count)
    /\ pc' = GraphEdge("review")
    /\ UNCHANGED << task, plan, next_agent, current_task_brief, agent_outputs,
                    final_output, tier, returned_plan, last_produced, invoked >>

\* The review node: the three keys of the delta replace the state's, every
\* other key of the state is kept.
Review ==
    /\ pc = "review"
    /\ reviewed' = GetLastAgentOutput(agent_outputs)
    /\ \E r \in ProviderReviews :
         LET delta == review_node(iteration_count, retry_count, current_step, r)
         IN  /\ last_review' = delta.last_review
             /\ retry_count' = delta.retry_count
             /\ current_step' = delta.current_step
             /\ since_advance' = IF delta.current_step # current_step
                                 THEN 0 ELSE since_advance
             /\ provider_review' = IF BudgetExhausted(iteration_count)
                                   THEN NoReview ELSE r
             /\ granted' = IF delta.last_review.should_retry
                           THEN granted + 1 ELSE granted
    /\ llm_calls' = IF BudgetExhausted(iteration_count)
                    THEN llm_calls
                    ELSE [llm_calls EXCEPT !.reviewer = @ + 1]
    /\ pc' = GraphEdge("review")
    /\ UNCHANGED << task, plan, next_agent, current_task_brief, agent_outputs,
                    iteration_count, final_output, tier, returned_plan,
                    last_produced, invoked >>

\* ------------------------------------------------------------------------
\* supervisor/synthesizer.py
\* ------------------------------------------------------------------------
\* A line of the formatted block: the header of an agent, the "Output #n"
\* line, the fields of one output (named by the output), the blank line
\* after an agent, or the text for no outputs at all.
Line(kind, agent, out, n) == [kind |-> kind, agent |-> agent, out |-> out, n |-> n]

\* Variant: the agents are presented in the order of the dict's keys.
PresentationOrder_AsInvoked(outputs) ==
    [i \in 1..Len(outputs) |-> outputs[i].name]

\* agent_order = ["researcher", "coder", "writer"]
PresentationOrder(outputs) == << "researcher", "coder", "writer" >>

\* outputs[agent_name] (empty when the key is missing).
ListOf(outputs, a) ==
    IF \E i \in 1..Len(outputs) : outputs[i].name = a
    THEN outputs[CHOOSE i \in 1..Len(outputs) : outputs[i].name = a].outs
    ELSE << >>

RECURSIVE OutputLines(_, _, _)
\* for i, output in enumerate(outputs[agent_name]), from entry i on.
OutputLines(a, outs, i) ==
    IF i > Len(outs) THEN << >>
    ELSE (IF Len(outs) > 1 THEN << Line("output_no", a, 0, i) >> ELSE << >>)
         \o << Line("output", a, outs[i], 0) >>
         \o OutputLines(a, outs, i + 1)

RECURSIVE Sections(_, _)
\* for agent_name in agent_order: an agent without outputs is skipped.
Sections(outputs, order) ==
    IF order = << >> THEN << >>
    ELSE LET a == Head(order)
             outs == ListOf(outputs, a)
         IN  (IF outs = << >> THEN << >>
              ELSE << Line("agent", a, 0, 0) >> \o OutputLines(a, outs, 1)
                   \o << Line("blank", a, 0, 0) >>)
             \o Sections(outputs, Tail(order))

\* _format_all_outputs: the lines joined into the block.
FormatAllOutputs(outputs) ==
    IF outputs = << >>
    THEN << Line("no_outputs", "none", 0, 0) >>
    ELSE Sections(outputs, PresentationOrder(outputs))

\* synthesize_node: one model call; the edge synthesize -> END.
Synthesize ==
    /\ pc = "synthesize"
    /\ final_output' = "final"
    /\ llm_calls' = [llm_calls EXCEPT !.synthesizer = @ + 1]
    /\ pc' = GraphEdge("synthesize")
    /\ UNCHANGED << task, plan, current_step, next_agent, current_task_brief,
                    agent_outputs, iteration_count, retry_count, last_review,
                    tier, reviewed, provider_review, returned_plan,
                    last_produced, since_advance, invoked, granted >>

\* ------------------------------------------------------------------------
\* The graph (graph/builder.py: build_graph)
\* ------------------------------------------------------------------------
Planning == \E p \in ProviderPlans : Plan(p)
Working == \E a \in Agents : Worker(a)

Next ==
    \/ Planning /\ UNCHANGED restVars
    \/ Route /\ UNCHANGED restVars
    \/ Working /\ UNCHANGED restVars
    \/ Review /\ UNCHANGED restVars
    \/ Synthesize /\ UNCHANGED restVars

Spec == Init /\ [][Next]_vars

\* graph.invoke runs the graph until END: a node that can run does run.
LiveSpec == Spec /\ WF_vars(Next)

\* ------------------------------------------------------------------------
\* Properties
\* ------------------------------------------------------------------------
RECURSIVE TotalOutputs(_)
\* The number of entries over all lists of agent_outputs.
TotalOutputs(outputs) ==
    IF outputs = << >> THEN 0
    ELSE Len(Head(outputs).outs) + TotalOutputs(Tail(outputs))

\* C1: iteration_count never exceeds MAX_ITERATIONS and the lists of
\* agent_outputs never hold more than MAX_ITERATIONS entries in total,
\* whatever the router and reviewer models answer and however long the plan.
C1_IterationCeiling ==
    /\ iteration_count <= MAX_ITERATIONS
    /\ TotalOutputs(agent_outputs) <= MAX_ITERATIONS

\* The ceiling forces synthesis of a plan longer than MAX_ITERATIONS that
\* is not finished.
C1_Witness ==
    /\ pc = "synthesize"
    /\ tier = "ceiling"
    /\ iteration_count = MAX_ITERATIONS
    /\ TotalOutputs(agent_outputs) = MAX_ITERATIONS
    /\ Len(plan.subtasks) > MAX_ITERATIONS
    /\ current_step < Len(plan.subtasks)

\* C2: every invocation whose model calls all return eventually reaches
\* the synthesize node, whatever the router and reviewer models answer.
C2_ReachesSynthesize == <>(pc = "synthesize")

\* Synthesis is reached through the ceiling although the router model was
\* consulted and never named synthesize and the reviewer model was
\* consulted at every review off the fast path.
C2_Witness ==
    /\ pc = "synthesize"
    /\ tier = "ceiling"
    /\ llm_calls.router > 0
    /\ current_step < Len(plan.subtasks)
    /\ llm_calls.reviewer = MAX_ITERATIONS - 2
    /\ current_step = 3

\* C3: when route takes the pending-retry return, the worker it names is
\* the worker whose invocation preceded the review that asked for the retry.
C3_RetrySameWorker ==
    (tier = "retry" /\ pc \in Agents) => next_agent = last_produced.agent

\* C4: the output the reviewer evaluates is the one produced by the worker
\* invocation that immediately preceded the review.
C4_ReviewsMostRecent ==
    (pc = "route" /\ reviewed # NoOutput) => reviewed = last_produced

\* C5: retry_count never exceeds MAX_RETRIES_PER_STEP; a retry the reviewer
\* model asks for while retry_count >= MAX_RETRIES_PER_STEP is stored as
\* should_retry = false, quality = acceptable, and retry_count is not
\* incremented.
C5_RetryCeiling ==
    /\ [](retry_count <= MAX_RETRIES_PER_STEP)
    /\ [][(/\ pc = "review"
           /\ provider_review'.should_retry
           /\ retry_count >= MAX_RETRIES_PER_STEP)
          => (/\ last_review'.should_retry = FALSE
              /\ last_review'.quality = "acceptable"
              /\ retry_count' <= retry_count)]_vars

\* The reviewer model asked for a retry and the ceiling turned it down.
C5_Witness ==
    /\ pc = "route"
    /\ provider_review.should_retry
    /\ ~last_review.should_retry
    /\ last_review.feedback = "provider+retry_limit_note"

\* C6: off the fast path, a retry asked for at evaluation number k of a
\* step is granted when k <= MAX_RETRIES_PER_STEP and is overridden at
\* k = MAX_RETRIES_PER_STEP + 1 (acceptable, no retry, current_step + 1); so
\* no step sees more than MAX_RETRIES_PER_STEP + 1 worker invocations.
C6_RetriesPerStep ==
    /\ [](since_advance <= MAX_RETRIES_PER_STEP + 1)
    /\ [][(pc = "review" /\ provider_review'.should_retry)
          => IF since_advance <= MAX_RETRIES_PER_STEP
             THEN /\ last_review'.should_retry
                  /\ retry_count' = since_advance
                  /\ current_step' = current_step
             ELSE /\ since_advance = MAX_RETRIES_PER_STEP + 1
                  /\ last_review'.should_retry = FALSE
                  /\ last_review'.quality = "acceptable"
                  /\ current_step' = current_step + 1]_vars

\* A step other than the first was retried MAX_RETRIES_PER_STEP times and
\* its next retry request was overridden.
C6_Witness ==
    /\ pc = "route"
    /\ provider_review.should_retry
    /\ provider_review.quality = "needs_retry"
    /\ last_review.quality = "acceptable"
    /\ ~last_review.should_retry
    /\ current_step = 2
    /\ iteration_count = MAX_RETRIES_PER_STEP + 2

\* C7: a review that runs with iteration_count >= MAX_ITERATIONS - 1 calls
\* no model and stores quality = acceptable, should_retry = false,
\* retry_count = 0 and current_step + 1.
C7_FastPath ==
    [][(pc = "review" /\ iteration_count >= MAX_ITERATIONS - 1)
       => (/\ llm_calls' = llm_calls
           /\ provider_review' = NoReview
           /\ last_review'.quality = "acceptable"
           /\ last_review'.should_retry = FALSE
           /\ retry_count' = 0
           /\ current_step' = current_step + 1)]_vars

\* The fast path accepted the output of a worker that was running a retry
\* (the route before it took the pending-retry return).
C7_Witness ==
    /\ pc = "route"
    /\ tier = "retry"
    /\ last_review.feedback = "auto_accepted"
    /\ iteration_count >= MAX_ITERATIONS - 1
    /\ retry_count = 0

\* C8: current_step never decreases; it changes only in a review, by
\* exactly 1, and only when the review stored has should_retry = false; a
\* review that stores should_retry = true leaves it unchanged.
C8_StepMonotone ==
    [][/\ current_step' >= current_step
       /\ (current_step' # current_step
            => (/\ pc = "review"
                /\ current_step' = current_step + 1
                /\ last_review'.should_retry = FALSE))
       /\ ((pc = "review" /\ last_review'.should_retry)
            => current_step' = current_step)]_vars

\* A retry was stored for a step that is not the first.
C8_Witness ==
    /\ pc = "route"
    /\ last_review.should_retry
    /\ current_step > 0
    /\ iteration_count > current_step

\* C9: after planning, current_step <= len(plan.subtasks).
C9_StepWithinPlan ==
    plan # NoPlan => current_step <= Len(plan.subtasks)

\* The last step of a plan was accepted by the fast path.
C9_Witness ==
    /\ pc = "route"
    /\ Len(plan.subtasks) > 0
    /\ current_step = Len(plan.subtasks)
    /\ last_review.feedback = "auto_accepted"

\* C10: a review that advances current_step leaves retry_count = 0, so
\* retry_count is the number of retries granted for the current step: the
\* worker invocations since the last advance, less the one under review.
C10_RetryResetOnAdvance ==
    /\ [](retry_count = IF pc = "review" THEN since_advance - 1
                                         ELSE since_advance)
    /\ [][current_step' # current_step => retry_count' = 0]_vars

\* The delegated path accepted a step that had been retried.
C10_Witness ==
    /\ pc = "route"
    /\ tier = "retry"
    /\ last_review.feedback = "provider"
    /\ ~last_review.should_retry
    /\ retry_count = 0

\* outputs.get(a, []): the list of agent a.
OutsOf(outputs, a) ==
    IF a \in Keys(outputs)
    THEN outputs[CHOOSE i \in 1..Len(outputs) : outputs[i].name = a].outs
    ELSE << >>

\* s is an initial part of t.
IsPrefix(s, t) ==
    /\ Len(s) <= Len(t)
    /\ \A i \in 1..Len(s) : s[i] = t[i]

\* C11: after planning the list of each worker variant is as long as the
\* number of invocations of that variant; an invocation appends one entry
\* at the end of its own list, and no step removes, replaces or reorders an
\* entry of any list.
C11_OutputsAppendOnly ==
    /\ [](plan # NoPlan =>
            \A a \in Agents : Len(OutsOf(agent_outputs, a)) = invoked[a])
    /\ [][pc # "plan" =>
            \A a \in Agents :
               IF pc = a
               THEN /\ Len(OutsOf(agent_outputs', a))
                         = Len(OutsOf(agent_outputs, a)) + 1
                    /\ IsPrefix(OutsOf(agent_outputs, a),
                                OutsOf(agent_outputs', a))
               ELSE OutsOf(agent_outputs', a) = OutsOf(agent_outputs, a)]_vars

\* A variant ran again after another variant had run, and both lists hold
\* every result.
C11_Witness ==
    /\ Len(agent_outputs) = 2
    /\ agent_outputs[1].outs = << 1, 3 >>
    /\ agent_outputs[2].outs = << 2 >>
    /\ invoked[agent_outputs[1].name] = 2

\* ------------------------------------------------------------------------
\* route_node on its own: the states a route call may be handed after
\* planning (a stored plan, any counters, any last review), one route call.
\* ------------------------------------------------------------------------
RouteInit ==
    /\ pc = "route"
    /\ task = "task"
    /\ \E p \in ProviderPlans :
         /\ plan = [goal |-> "goal", subtasks |-> Truncate(p)]
         /\ returned_plan = p
    /\ current_step \in 0..(MAX_PLAN_STEPS + MaxOver)
    /\ iteration_count \in 0..(MAX_ITERATIONS + MaxOver)
    /\ last_review \in {NoReview, AutoAccepted} \cup ProviderReviews
    /\ next_agent = "researcher"
    /\ current_task_brief = Brief("empty", 0)
    /\ agent_outputs = << >>
    /\ retry_count = 0
    /\ final_output = ""
    /\ tier = "none"
    /\ reviewed = NoOutput
    /\ provider_review = NoReview
    /\ llm_calls = [planner |-> 1, router |-> 0, reviewer |-> 0, synthesizer |-> 0]
    /\ last_produced = NoOutput
    /\ since_advance = 0
    /\ invoked = [a \in Agents |-> 0]
    /\ granted = 0
    /\ AtRest

RouteNext == Route /\ UNCHANGED restVars

RouteSpec == RouteInit /\ [][RouteNext]_vars

\* C12: route applies its checks in strict precedence: at the iteration
\* ceiling it names synthesize, also with a pending retry and an unfinished
\* plan; else with the plan exhausted it names synthesize, also with a
\* pending retry; else a pending retry is dispatched to a worker; the router
\* model is called only when none of the three holds.
C12_TierPrecedence ==
    [][pc = "route" =>
         IF iteration_count >= MAX_ITERATIONS
         THEN /\ next_agent' = "synthesize" /\ pc' = "synthesize"
              /\ llm_calls' = llm_calls
         ELSE IF current_step >= Len(plan.subtasks)
         THEN /\ next_agent' = "synthesize" /\ pc' = "synthesize"
              /\ llm_calls' = llm_calls
         ELSE IF last_review # NoReview /\ last_review.should_retry
         THEN /\ next_agent' \in Agents /\ pc' = next_agent'
              /\ current_task_brief'.src \in {"retry_instructions", "description"}
              /\ llm_calls' = llm_calls
         ELSE /\ llm_calls'.router = llm_calls.router + 1
              /\ next_agent' \in RouteTargets
              /\ current_task_brief'.src = "task_brief"]_vars

\* The ceiling won over a pending retry and an unfinished plan.
C12_Witness ==
    /\ pc = "synthesize"
    /\ tier = "ceiling"
    /\ last_review.should_retry
    /\ current_step < Len(plan.subtasks)
    /\ llm_calls.router = 0

\* C13: a route call, whichever return it takes, leaves iteration_count,
\* current_step, retry_count, last_review, plan and agent_outputs (and the
\* task and final_output) as they were: it writes next_agent and
\* current_task_brief only.
C13_RouteFrame ==
    [][pc = "route" =>
         /\ iteration_count' = iteration_count
         /\ current_step' = current_step
         /\ retry_count' = retry_count
         /\ last_review' = last_review
         /\ plan' = plan
         /\ agent_outputs' = agent_outputs
         /\ task' = task
         /\ final_output' = final_output]_vars

\* A retry was dispatched in the middle of the loop with every counter and
\* the outputs in place.
C13_Witness ==
    /\ pc \in Agents
    /\ tier = "retry"
    /\ iteration_count = 3
    /\ current_step = 1
    /\ retry_count = 2
    /\ last_review.should_retry
    /\ TotalOutputs(agent_outputs) = 3

\* C14: synthesize is the only terminal node: END is entered from
\* synthesize only (never from route's "__end__" branch), an invocation
\* that has ended has run synthesize exactly once, and no node runs after
\* END.
C14_SynthesizeTerminal ==
    /\ [](llm_calls.synthesizer <= 1)
    /\ [](pc = "END" => /\ llm_calls.synthesizer = 1
                        /\ final_output = "final"
                        /\ next_agent = "synthesize")
    /\ [][pc' = "END" => pc = "synthesize"]_vars
    /\ [][pc # "END"]_vars

\* An invocation ended after the router model named synthesize in the
\* middle of the plan.
C14_Witness ==
    /\ pc = "END"
    /\ tier = "delegated"
    /\ llm_calls.synthesizer = 1
    /\ iteration_count > 0
    /\ current_step < Len(plan.subtasks)

\* C15: the nodes run in the order plan, then (route, worker, review)
\* repeated, then route, then synthesize: plan runs once and first, a worker
\* runs only right after a route and is followed at once by one review, a
\* review is followed at once by a route, and synthesize follows a route.
C15_PhaseOrder ==
    /\ [](llm_calls.planner <= 1)
    /\ [][/\ pc' # "plan"
          /\ (pc = "plan" => (pc' = "route" /\ llm_calls'.planner = 1))
          /\ (pc = "route" => pc' \in Agents \cup {"synthesize"})
          /\ (pc' \in Agents => pc = "route")
          /\ (pc \in Agents => pc' = "review")
          /\ (pc' = "review" => pc \in Agents)
          /\ (pc = "review" => pc' = "route")
          /\ (pc' = "synthesize" => pc = "route")
          /\ (pc = "synthesize" => pc' = "END")]_vars

\* Two rounds of route, worker, review were followed by a route that chose
\* synthesize.
C15_Witness ==
    /\ pc = "synthesize"
    /\ llm_calls.planner = 1
    /\ llm_calls.router = 3
    /\ llm_calls.reviewer = 2
    /\ iteration_count = 2

\* C16: as long as no review has stored should_retry = true, the number
\* of worker invocations is at most len(plan.subtasks); an invocation with
\* a one-subtask plan, no retry and a worker dispatched ends after exactly
\* one worker invocation and one synthesize call.
C16_NoRetryWithinPlan ==
    /\ (plan # NoPlan /\ granted = 0)
         => /\ iteration_count <= Len(plan.subtasks)
            /\ TotalOutputs(agent_outputs) <= Len(plan.subtasks)
    /\ (/\ pc = "END"
        /\ Len(plan.subtasks) = 1
        /\ granted = 0
        /\ last_produced # NoOutput)
         => /\ TotalOutputs(agent_outputs) = 1
            /\ llm_calls.synthesizer = 1

\* A one-subtask plan: one worker, reviewed good, then synthesize.
C16_Witness ==
    /\ pc = "END"
    /\ Len(plan.subtasks) = 1
    /\ granted = 0
    /\ last_review.quality = "good"
    /\ tier = "plan_done"
    /\ TotalOutputs(agent_outputs) = 1
    /\ llm_calls.synthesizer = 1

\* C17: the stored plan is the longest prefix of the returned subtask
\* list that has at most MAX_PLAN_STEPS subtasks: a longer list keeps
\* exactly its first MAX_PLAN_STEPS subtasks in order, a list within the cap
\* is stored unchanged.
C17_PlanTruncation ==
    plan # NoPlan =>
        LET n == Len(returned_plan)
            m == IF n > MAX_PLAN_STEPS THEN MAX_PLAN_STEPS ELSE n
        IN  /\ Len(plan.subtasks) = m
            /\ \A i \in 1..m : plan.subtasks[i] = returned_plan[i]
            /\ (n <= MAX_PLAN_STEPS => plan.subtasks = returned_plan)

\* The planner model returned more than MAX_PLAN_STEPS subtasks and the
\* stored plan ends with subtask number MAX_PLAN_STEPS.
C17_Witness ==
    /\ pc = "route"
    /\ Len(returned_plan) > MAX_PLAN_STEPS
    /\ Len(plan.subtasks) = MAX_PLAN_STEPS
    /\ plan.subtasks[MAX_PLAN_STEPS].id = MAX_PLAN_STEPS
    /\ plan.subtasks[1].agent # plan.subtasks[2].agent

\* ------------------------------------------------------------------------
\* plan_node on a state that is not fresh: graph.invoke handed a state whose
\* loop fields (current_step, iteration_count, retry_count, agent_outputs)
\* hold values of earlier work; the other fields are as main.run sets them.
\* The history variables describe that earlier work.
\* ------------------------------------------------------------------------
PassedOutputs ==
    { << >>,
      << [name |-> "researcher", outs |-> << 1 >>] >>,
      << [name |-> "researcher", outs |-> << 1, 3 >>],
         [name |-> "coder", outs |-> << 2 >>] >> }

ReinitInit ==
    /\ pc = "plan"
    /\ task = "task"
    /\ plan = NoPlan
    /\ current_step \in 0..(MAX_PLAN_STEPS + MaxOver)
    /\ iteration_count \in 0..(MAX_ITERATIONS + MaxOver)
    /\ retry_count \in 0..(MAX_RETRIES_PER_STEP + MaxOver)
    /\ agent_outputs \in PassedOutputs
    /\ next_agent = "researcher"
    /\ current_task_brief = Brief("empty", 0)
    /\ last_review = NoReview
    /\ final_output = ""
    /\ tier = "none"
    /\ reviewed = NoOutput
    /\ provider_review = NoReview
    /\ llm_calls = [planner |-> 0, router |-> 0, reviewer |-> 0, synthesizer |-> 0]
    /\ returned_plan = << >>
    /\ last_produced = NoOutput
    /\ since_advance = retry_count
    /\ invoked = [a \in Agents |-> Len(OutsOf(agent_outputs, a))]
    /\ granted = 0
    /\ AtRest

ReinitNext ==
    \/ Planning /\ UNCHANGED restVars
    \/ Route /\ UNCHANGED restVars

ReinitSpec == ReinitInit /\ [][ReinitNext]_vars

C19_PlanImmutable ==
    /\ [][pc # "plan" => plan' = plan]_vars
    /\ [][task' = task]_vars
    /\ [](pc # "plan" => plan.subtasks = Truncate(returned_plan))

\* A capped plan went through retries up to the iteration ceiling and to
\* the end of the invocation.
C19_Witness ==
    /\ pc = "END"
    /\ Len(plan.subtasks) = MAX_PLAN_STEPS
    /\ plan.goal = "goal"
    /\ task = "task"
    /\ iteration_count = MAX_ITERATIONS
    /\ granted > 0

\* C20: when route takes the pending-retry return, current_task_brief is
\* last_review.retry_instructions when they were given, and otherwise the
\* description of the subtask under retry: the step current_step, whose
\* review asked for the retry and left current_step in place.
C20_RetryBrief ==
    (tier = "retry" /\ pc \in Agents) =>
        current_task_brief =
            IF last_review.retry_instructions # "None"
            THEN Brief("retry_instructions", 0)
            ELSE Brief("description", plan.subtasks[current_step + 1].id)


\* ------------------------------------------------------------------------
\* Provider failures.  No node wraps its model call in a try block and
\* build_graph gives no node a retry policy: an exception raised by
\* llm.invoke (planner.py 41, router.py 143, reviewer.py 90, synthesizer.py
\* 112) or by agent.run (builder.py 50) leaves graph.invoke and main.run;
\* the node returns no delta and no node runs after it.
\* ------------------------------------------------------------------------
\* The nodes that call a model, and the count of llm_calls each one uses.
CallSites == {"plan", "route", "review", "synthesize"} \cup Agents

CallsAfter(node) ==
    IF node = "plan" THEN [llm_calls EXCEPT !.planner = @ + 1]
    ELSE IF node = "route" THEN [llm_calls EXCEPT !.router = @ + 1]
    ELSE IF node = "review" THEN [llm_calls EXCEPT !.reviewer = @ + 1]
    ELSE IF node = "synthesize" THEN [llm_calls EXCEPT !.synthesizer = @ + 1]
    ELSE llm_calls

\* Variant: the exception is caught and noted, and the graph goes on to the
\* next node without a delta.
Raise_Swallowed(node) ==
    /\ pc' = IF node = "route" THEN "synthesize" ELSE GraphEdge(node)
    /\ error' = node
    /\ llm_calls' = CallsAfter(node)
    /\ provider_review' = IF node = "review" THEN NoReview ELSE provider_review
    /\ UNCHANGED << task, plan, current_step, next_agent, current_task_brief,
                    agent_outputs, iteration_count, retry_count, last_review,
                    final_output, tier, reviewed, returned_plan,
                    last_produced, since_advance, invoked, granted,
                    to_build, nodes, running, xpc, messages, round,
                    tool_queue, raw, provider_calls, executed,
                    compiled_graph, builds, invocations >>

\* The model call of the node raises: the exception propagates, the state
\* keeps the values merged before the node ran.
Raise(node) ==
    /\ pc' = "ABORTED"
    /\ error' = node
    /\ llm_calls' = CallsAfter(node)
    /\ provider_review' = IF node = "review" THEN NoReview ELSE provider_review
    /\ UNCHANGED << task, plan, current_step, next_agent, current_task_brief,
                    agent_outputs, iteration_count, retry_count, last_review,
                    final_output, tier, reviewed, returned_plan,
                    last_produced, since_advance, invoked, granted,
                    to_build, nodes, running, xpc, messages, round,
                    tool_queue, raw, provider_calls, executed,
                    compiled_graph, builds, invocations >>

\* plan_node: llm.invoke raises.
PlanFails == pc = "plan" /\ Raise("plan")

\* route_node: llm.invoke of the last return raises.
RouteFails ==
    /\ pc = "route"
    /\ RouteTier(iteration_count, plan, current_step, last_review) = "delegated"
    /\ Raise("route")

\* agent_node: agent.run raises.
WorkerFails == pc \in Agents /\ Raise(pc)

\* review_node: llm.invoke raises (off the fast path, which calls no model).
ReviewFails ==
    /\ pc = "review"
    /\ ~BudgetExhausted(iteration_count)
    /\ Raise("review")

\* synthesize_node: llm.invoke raises.
SynthesizeFails == pc = "synthesize" /\ Raise("synthesize")

FailNext ==
    \/ Next
    \/ PlanFails
    \/ RouteFails
    \/ WorkerFails
    \/ ReviewFails
    \/ SynthesizeFails

FailSpec == Init /\ [][FailNext]_vars


\* C21: a model call that fails in plan, in route's delegated return, in
\* a worker, in review off the fast path or in synthesize ends the run at
\* that call: the failing step is taken at one of these five sites, makes
\* that one call and changes no field of the state (retry_count,
\* iteration_count, final_output among them); once a call has failed the
\* run is over, no node runs afterwards and final_output stays empty.
C21_ProviderFailureAborts ==
    /\ [](error # "none" => (pc = "ABORTED" /\ final_output = ""))
    /\ [][pc # "ABORTED"]_vars
    /\ [][error' # "none" =>
            /\ error' = pc
            /\ \/ pc \in {"plan", "synthesize"} \cup Agents
               \/ /\ pc = "route"
                  /\ iteration_count < MAX_ITERATIONS
                  /\ current_step < Len(plan.subtasks)
                  /\ ~(last_review # NoReview /\ last_review.should_retry)
               \/ /\ pc = "review"
                  /\ iteration_count < MAX_ITERATIONS - 1
            /\ llm_calls'.planner + llm_calls'.router + llm_calls'.reviewer
                 + llm_calls'.synthesizer
               = llm_calls.planner + llm_calls.router + llm_calls.reviewer
                 + llm_calls.synthesizer + (IF pc \in Agents THEN 0 ELSE 1)
            /\ retry_count' = retry_count
            /\ iteration_count' = iteration_count
            /\ current_step' = current_step
            /\ agent_outputs' = agent_outputs
            /\ last_review' = last_review
            /\ plan' = plan
            /\ final_output' = final_output]_vars

\* The reviewer model failed at the review of a retried step: the run
\* stopped with the retry and iteration counts of before that review.
C21_Witness ==
    /\ pc = "ABORTED"
    /\ error = "review"
    /\ iteration_count = 2
    /\ retry_count = 1
    /\ llm_calls.reviewer = 2
    /\ llm_calls.synthesizer = 0
    /\ final_output = ""


\* A run that takes every step it can take, a failing call included.
FailLiveSpec == FailSpec /\ WF_vars(FailNext)

\* C22: running into a budget raises nothing.  A route at the iteration
\* ceiling goes to synthesize; a review on the fast path, and a review
\* whose model asked for a retry at the retry ceiling, accept the step and
\* go back to route; a plan longer than MAX_PLAN_STEPS is stored cut and
\* the run goes on to route.  After any of them the run reaches synthesize
\* unless a later model call fails.
C22_BudgetNeverError ==
    /\ [][/\ (pc = "route" /\ iteration_count >= MAX_ITERATIONS)
               => (error' = "none" /\ pc' = "synthesize")
          /\ (pc = "review" /\ iteration_count >= MAX_ITERATIONS - 1)
               => /\ error' = "none" /\ pc' = "route"
                  /\ last_review'.should_retry = FALSE
                  /\ current_step' = current_step + 1
          /\ (/\ pc = "review"
              /\ provider_review' # NoReview
              /\ provider_review'.should_retry
              /\ retry_count >= MAX_RETRIES_PER_STEP)
               => /\ error' = "none" /\ pc' = "route"
                  /\ last_review'.should_retry = FALSE
                  /\ last_review'.quality = "acceptable"
                  /\ current_step' = current_step + 1
          /\ (pc = "plan" /\ Len(returned_plan') > MAX_PLAN_STEPS)
               => /\ error' = "none" /\ pc' = "route"
                  /\ Len(plan'.subtasks) = MAX_PLAN_STEPS]_vars
    /\ []((/\ pc \notin {"END", "ABORTED"}
            /\ \/ tier = "ceiling"
               \/ last_review.feedback \in {"auto_accepted",
                                            "provider+retry_limit_note"}
               \/ Len(returned_plan) > MAX_PLAN_STEPS)
          => <>(pc = "synthesize" \/ error # "none"))

\* A cut plan, retries, a step accepted on the fast path, then synthesis
\* forced at the iteration ceiling with the plan unfinished.
C22_Witness ==
    /\ pc = "synthesize"
    /\ error = "none"
    /\ tier = "ceiling"
    /\ Len(returned_plan) > MAX_PLAN_STEPS
    /\ last_review.feedback = "auto_accepted"
    /\ current_step = 3
    /\ llm_calls.reviewer = MAX_ITERATIONS - 2


\* ------------------------------------------------------------------------
\* Worker dispatch: build_graph makes one node per worker name through
\* _make_agent_node, which looks the name up with get_agent when the node is
\* made; route_conditional_edge picks the node to run from next_agent.  The
\* names asked for and the value of next_agent are the inputs.
\* ------------------------------------------------------------------------
\* The keys of AGENT_REGISTRY.
AGENT_REGISTRY == {"researcher", "coder", "writer"}

\* Worker names a build may ask for: the registered ones and one that is not.
WorkerNames == AGENT_REGISTRY \cup {"analyst"}

\* Three distinct names, as build_graph adds three worker nodes.
RequestLists ==
    { s \in [1..3 -> WorkerNames] : \A i, j \in 1..3 : s[i] = s[j] => i = j }

\* Values of next_agent handed to the conditional edge: those of the state
\* schema, an unregistered worker name and the empty string.
EdgeInputs == RouteTargets \cup {"__end__", "analyst", ""}

\* Variant: an unknown name falls back to the writer.
get_agent_Default(name) ==
    IF name \notin AGENT_REGISTRY THEN "writer" ELSE name

\* get_agent: the agent of the name, or the ValueError it raises.
get_agent(name) ==
    IF name \notin AGENT_REGISTRY THEN "ValueError" ELSE name

DispatchInit ==
    /\ pc = "build"
    /\ to_build \in RequestLists
    /\ nodes = {}
    /\ next_agent \in EdgeInputs
    /\ error = "none"
    /\ running = "none"
    /\ xpc = "idle"
    /\ messages = << >>
    /\ round = 0
    /\ tool_queue = << >>
    /\ raw = [kind |-> "none", msg |-> 0]
    /\ provider_calls = [with_tools |-> 0, structured |-> 0]
    /\ executed = [by |-> "none", raw |-> [kind |-> "none", msg |-> 0]]
    /\ compiled_graph = 1
    /\ builds = 1
    /\ invocations = << >>
    /\ task = "task"
    /\ plan = NoPlan
    /\ current_step = 0
    /\ current_task_brief = Brief("empty", 0)
    /\ agent_outputs = << >>
    /\ iteration_count = 0
    /\ retry_count = 0
    /\ last_review = NoReview
    /\ final_output = ""
    /\ tier = "none"
    /\ reviewed = NoOutput
    /\ provider_review = NoReview
    /\ llm_calls = [planner |-> 0, router |-> 0, reviewer |-> 0, synthesizer |-> 0]
    /\ returned_plan = << >>
    /\ last_produced = NoOutput
    /\ since_advance = 0
    /\ invoked = [a \in Agents |-> 0]
    /\ granted = 0

\* workflow.add_node(name, _make_agent_node(name)): get_agent runs now, and
\* its ValueError leaves build_graph.
MakeAgentNode ==
    /\ pc = "build"
    /\ to_build # << >>
    /\ IF get_agent(Head(to_build)) = "ValueError"
       THEN /\ error' = "ValueError"
            /\ pc' = "ABORTED"
            /\ UNCHANGED << to_build, nodes >>
       ELSE /\ nodes' = nodes \cup {Head(to_build)}
            /\ to_build' = Tail(to_build)
            /\ UNCHANGED << pc, error >>
    /\ UNCHANGED << task, plan, current_step, next_agent, current_task_brief,
                    agent_outputs, iteration_count, retry_count, last_review,
                    final_output, tier, reviewed, provider_review, llm_calls,
                    returned_plan, last_produced, since_advance, invoked,
                    granted, running, xpc, messages, round, tool_queue, raw,
                    provider_calls, executed, compiled_graph, builds,
                    invocations >>

\* The graph is compiled; the run is taken to the point where route has
\* returned and its conditional edge is evaluated.
Compile ==
    /\ pc = "build"
    /\ to_build = << >>
    /\ pc' = "edge"
    /\ UNCHANGED << task, plan, current_step, next_agent, current_task_brief,
                    agent_outputs, iteration_count, retry_count, last_review,
                    final_output, tier, reviewed, provider_review, llm_calls,
                    returned_plan, last_produced, since_advance, invoked,
                    granted, error, to_build, nodes, running, xpc,
                    messages, round, tool_queue, raw, provider_calls,
                    executed, compiled_graph, builds, invocations >>

\* add_conditional_edges("route", route_conditional_edge, {...}).
ConditionalEdge ==
    /\ pc = "edge"
    /\ pc' = route_conditional_edge(next_agent)
    /\ UNCHANGED << task, plan, current_step, next_agent, current_task_brief,
                    agent_outputs, iteration_count, retry_count, last_review,
                    final_output, tier, reviewed, provider_review, llm_calls,
                    returned_plan, last_produced, since_advance, invoked,
                    granted, error, to_build, nodes, running, xpc,
                    messages, round, tool_queue, raw, provider_calls,
                    executed, compiled_graph, builds, invocations >>

DispatchNext == MakeAgentNode \/ Compile \/ ConditionalEdge

DispatchSpec == DispatchInit /\ [][DispatchNext]_vars

\* C23: a worker name that is not registered is rejected with a fatal
\* error while the graph is built, at the node of that name and before any
\* phase of a task has run; an error is raised nowhere else, and the
\* conditional edge after route raises none for any value of next_agent:
\* a value outside researcher, coder, writer, synthesize ends the run.
C23_UnknownWorkerAtConstruction ==
    /\ [][(/\ pc = "build"
           /\ to_build # << >>
           /\ Head(to_build) \notin {"researcher", "coder", "writer"})
          => (error' = "ValueError" /\ pc' = "ABORTED")]_vars
    /\ [][error' # error => pc = "build"]_vars
    /\ [](error # "none" =>
            /\ pc = "ABORTED"
            /\ plan = NoPlan
            /\ iteration_count = 0
            /\ llm_calls = [planner |-> 0, router |-> 0, reviewer |-> 0,
                            synthesizer |-> 0])
    /\ [](pc = "edge" => nodes = {"researcher", "coder", "writer"})
    /\ [][pc = "edge" =>
            /\ error' = "none"
            /\ (next_agent \notin {"researcher", "coder", "writer", "synthesize"}
                  => pc' = "END")]_vars

\* The build met the unregistered name after it had made two worker nodes.
C23_Witness ==
    /\ pc = "ABORTED"
    /\ error = "ValueError"
    /\ Len(to_build) = 1
    /\ Head(to_build) = "analyst"
    /\ nodes = {"researcher", "coder"}
    /\ llm_calls.planner = 0


\* ------------------------------------------------------------------------
\* agents: one _execute.  The researcher, and the coder as get_agent makes
\* it (enable_execution = True), run _call_with_tools and then one call of
\* llm_structured; the writer runs BaseAgent._execute, one call of
\* llm_structured.  The model's responses and the tools' outcomes are the
\* inputs.
\* ------------------------------------------------------------------------
\* max_tool_rounds of _call_with_tools.
max_tool_rounds == 6

\* The agents whose _get_tools returns a tool.
ToolAgents == {"researcher", "coder"}

\* tools_by_name: the name of the bound tool; and a name the model made up.
BoundTool(agent) == IF agent = "researcher" THEN "web_search" ELSE "execute_python"
UnknownTool == "no_such_tool"

\* A message of the transcript.  object: a message object, which has the
\* attribute content; a tool result is a plain dict, which has not.
Message(role, object, content, tool_calls, tool_call_id) ==
    [role |-> role, object |-> object, content |-> content,
     tool_calls |-> tool_calls, tool_call_id |-> tool_call_id]

\* messages = [SystemMessage(...), HumanMessage(...)]
Prompt ==
    << Message("system", TRUE, "system_prompt", << >>, 0),
       Message("human", TRUE, "user_prompt", << >>, 0) >>

\* The numbers of the calls of a list that name no bound tool.
Unknown(agent, names) ==
    Cardinality({ i \in 1..Len(names) : names[i] # BoundTool(agent) })

\* The tool names a response may hold when `failed` tool calls have failed
\* before: up to MaxToolCalls names, each the bound tool or an unknown one.
ToolCallLists(agent, failed) ==
    { names \in UNION { [1..n -> {BoundTool(agent), UnknownTool}]
                          : n \in 0..MaxToolCalls } :
        failed + Unknown(agent, names) <= MaxToolFailures }

\* response.tool_calls of pass r: the ids are unique in the transcript.
WithIds(names, r) ==
    [i \in 1..Len(names) |-> [name |-> names[i], id |-> 10 * r + i]]

\* The tool results of the transcript that carry an error text.
Failures(msgs) ==
    Cardinality({ i \in 1..Len(msgs) :
                    /\ msgs[i].role = "tool"
                    /\ msgs[i].content # "tool_output" })

\* tool_result of one tool call: the unknown-tool text, the text of the
\* exception the tool raised, or what the tool returned.
ToolResult(agent, call, raised) ==
    IF call.name # BoundTool(agent) THEN "Error: Unknown tool"
    ELSE IF raised THEN "Error executing"
    ELSE "tool_output"

\* The dict appended for a tool call.
ToolMessage(call, content) == Message("tool", FALSE, content, << >>, call.id)

\* Variant: the loop makes one pass more.
LoopEnds_OnePassMore(r) == r >= max_tool_rounds + 1

\* for _ in range(max_tool_rounds): pass r was the last one.
LoopEnds(r) == r >= max_tool_rounds

\* The return after the loop:
\* messages[-1].content if hasattr(messages[-1], "content") else str(messages[-1])
\* The value is named by the message it is taken from and by whether it is
\* the content of that message or the rendering of the whole message.
AfterLoop(msgs) ==
    IF msgs[Len(msgs)].object
    THEN [kind |-> "content", msg |-> Len(msgs)]
    ELSE [kind |-> "str", msg |-> Len(msgs)]

NoRaw == [kind |-> "none", msg |-> 0]

ToolInit ==
    /\ running \in Agents
    /\ xpc = IF running \in ToolAgents THEN "call_with_tools" ELSE "direct"
    /\ messages = Prompt
    /\ round = IF running \in ToolAgents THEN 1 ELSE 0
    /\ tool_queue = << >>
    /\ raw = NoRaw
    /\ provider_calls = [with_tools |-> 0, structured |-> 0]
    /\ executed = [by |-> "none", raw |-> NoRaw]
    /\ compiled_graph = 1
    /\ builds = 1
    /\ invocations = << >>
    /\ error = "none"
    /\ to_build = << >>
    /\ nodes = Agents
    /\ pc = running
    /\ task = "task"
    /\ plan = [goal |-> "goal", subtasks |-> MkSubtasks(<< running >>)]
    /\ current_step = 0
    /\ next_agent = running
    /\ current_task_brief = Brief("task_brief", 0)
    /\ agent_outputs = << >>
    /\ iteration_count = 0
    /\ retry_count = 0
    /\ last_review = NoReview
    /\ final_output = ""
    /\ tier = "delegated"
    /\ reviewed = NoOutput
    /\ provider_review = NoReview
    /\ llm_calls = [planner |-> 1, router |-> 1, reviewer |-> 0, synthesizer |-> 0]
    /\ returned_plan = MkSubtasks(<< running >>)
    /\ last_produced = NoOutput
    /\ since_advance = 0
    /\ invoked = [a \in Agents |-> 0]
    /\ granted = 0

\* One pass of the loop up to the tool calls: the model is called with the
\* transcript and its response is appended; a response without tool calls
\* is returned at once.
InvokeWithTools ==
    /\ xpc = "call_with_tools"
    /\ \E names \in ToolCallLists(running, Failures(messages)) :
         LET response == Message("ai", TRUE, "response", WithIds(names, round), 0)
         IN  /\ messages' = Append(messages, response)
             /\ IF response.tool_calls = << >>
                THEN /\ raw' = [kind |-> "content", msg |-> Len(messages')]
                     /\ xpc' = "structure"
                     /\ tool_queue' = << >>
                ELSE /\ tool_queue' = response.tool_calls
                     /\ xpc' = "tool_calls"
                     /\ raw' = raw
    /\ provider_calls' = [provider_calls EXCEPT !.with_tools = @ + 1]
    /\ UNCHANGED << runVars, error, to_build, nodes, running, round, executed,
                    compiled_graph, builds, invocations >>

\* Variant: the exception of a tool leaves _call_with_tools.
ExecuteTool_Propagates ==
    /\ xpc = "tool_calls"
    /\ tool_queue # << >>
    /\ \E raised \in BOOLEAN :
         LET call == Head(tool_queue)
             content == ToolResult(running, call, raised)
         IN  /\ raised => /\ call.name = BoundTool(running)
                           /\ Failures(messages) + Len(Tail(tool_queue))
                                - Len(SelectSeq(Tail(tool_queue), LAMBDA c :
                                        c.name = BoundTool(running)))
                                < MaxToolFailures
             /\ IF content = "Error executing"
                THEN /\ xpc' = "raised"
                     /\ UNCHANGED << messages, tool_queue, round, raw >>
                ELSE /\ messages' = Append(messages, ToolMessage(call, content))
                     /\ tool_queue' = Tail(tool_queue)
                     /\ IF Tail(tool_queue) # << >>
                        THEN UNCHANGED << xpc, round, raw >>
                        ELSE IF LoopEnds(round)
                        THEN /\ raw' = AfterLoop(messages')
                             /\ xpc' = "structure"
                             /\ round' = round
                        ELSE /\ round' = round + 1
                             /\ xpc' = "call_with_tools"
                             /\ raw' = raw
    /\ UNCHANGED << runVars, error, to_build, nodes, running, provider_calls,
                    executed, compiled_graph, builds, invocations >>

\* One tool call of the response: the tool is looked up and invoked, its
\* result or the error text is appended as a tool message.  After the last
\* call of the response the loop goes to its next pass, or ends.
ExecuteTool ==
    /\ xpc = "tool_calls"
    /\ tool_queue # << >>
    /\ \E raised \in BOOLEAN :
         LET call == Head(tool_queue)
             content == ToolResult(running, call, raised)
         IN  /\ raised => /\ call.name = BoundTool(running)
                           /\ Failures(messages) + Len(Tail(tool_queue))
                                - Len(SelectSeq(Tail(tool_queue), LAMBDA c :
                                        c.name = BoundTool(running)))
                                < MaxToolFailures
             /\ messages' = Append(messages, ToolMessage(call, content))
             /\ tool_queue' = Tail(tool_queue)
             /\ IF Tail(tool_queue) # << >>
                THEN UNCHANGED << xpc, round, raw >>
                ELSE IF LoopEnds(round)
                THEN /\ raw' = AfterLoop(messages')
                     /\ xpc' = "structure"
                     /\ round' = round
                ELSE /\ round' = round + 1
                     /\ xpc' = "call_with_tools"
                     /\ raw' = raw
    /\ UNCHANGED << runVars, error, to_build, nodes, running, provider_calls,
                    executed, compiled_graph, builds, invocations >>

\* Variant: the raw text is returned as the result, without a second call.
Structure_Skipped ==
    /\ xpc = "structure"
    /\ executed' = [by |-> "raw", raw |-> raw]
    /\ xpc' = "done"
    /\ UNCHANGED << runVars, error, to_build, nodes, running, messages, round,
                    tool_queue, raw, provider_calls, compiled_graph, builds,
                    invocations >>

\* Phase 2 of the researcher and of the coder: llm_structured is called
\* with the raw text and its answer is returned.
Structure ==
    /\ xpc = "structure"
    /\ provider_calls' = [provider_calls EXCEPT !.structured = @ + 1]
    /\ executed' = [by |-> "llm_structured", raw |-> raw]
    /\ xpc' = "done"
    /\ UNCHANGED << runVars, error, to_build, nodes, running, messages, round,
                    tool_queue, raw, compiled_graph, builds, invocations >>

\* BaseAgent._execute: llm_structured is called with the prompt.
Direct ==
    /\ xpc = "direct"
    /\ provider_calls' = [provider_calls EXCEPT !.structured = @ + 1]
    /\ executed' = [by |-> "llm_structured", raw |-> NoRaw]
    /\ xpc' = "done"
    /\ UNCHANGED << runVars, error, to_build, nodes, running, messages, round,
                    tool_queue, raw, compiled_graph, builds, invocations >>

ToolNext == InvokeWithTools \/ ExecuteTool \/ Structure \/ Direct

ToolSpec == ToolInit /\ [][ToolNext]_vars


\* The steps the tool loop can still take: the passes not yet begun, each
\* with its model call and its tool calls, and what is left of this pass.
StepsLeft ==
    IF xpc = "call_with_tools"
    THEN (6 - round + 1) * (MaxToolCalls + 1)
    ELSE IF xpc = "tool_calls"
    THEN (6 - round) * (MaxToolCalls + 1) + Len(tool_queue)
    ELSE 0

\* C24: the tool loop calls the model at most 6 times in one worker
\* invocation and always ends: it returns the response at the first
\* response that asks for no tool, and otherwise goes on to the tool calls
\* and returns only after the tool calls of the 6th response.  It ends
\* because inside the loop a step can always be taken and every step
\* lowers the number of steps left, which is never negative.
C24_ToolLoopBounded ==
    /\ [](provider_calls.with_tools <= 6)
    /\ [](xpc \in {"call_with_tools", "tool_calls"} => round <= 6)
    /\ [][xpc = "call_with_tools" =>
            /\ provider_calls'.with_tools = provider_calls.with_tools + 1
            /\ provider_calls'.with_tools = round
            /\ IF messages'[Len(messages')].tool_calls = << >>
               THEN xpc' = "structure" /\ raw'.msg = Len(messages')
               ELSE xpc' = "tool_calls"]_vars
    /\ [][(xpc = "tool_calls" /\ xpc' = "structure")
            => (provider_calls.with_tools = 6 /\ Len(tool_queue) = 1)]_vars
    /\ [][(xpc = "tool_calls" /\ Len(tool_queue) = 1
                              /\ provider_calls.with_tools = 6)
            => xpc' = "structure"]_vars
    /\ [](StepsLeft >= 0)
    /\ [](xpc \in {"call_with_tools", "tool_calls"} => ENABLED ToolNext)
    /\ [][(xpc \in {"call_with_tools", "tool_calls"})
            => (StepsLeft > StepsLeft')]_vars
    /\ [](xpc \in {"structure", "done"} /\ running \in {"researcher", "coder"}
            => raw.kind # "none")

\* Every one of the 6 responses asked for tools; the loop returned after
\* the tool calls of the 6th.
C24_Witness ==
    /\ xpc = "structure"
    /\ provider_calls.with_tools = 6
    /\ round = 6
    /\ messages[Len(messages)].role = "tool"
    /\ Len(messages) = 2 + 6 * (1 + MaxToolCalls)


\* C25: a tool call that fails (its tool raises, or it names no bound
\* tool) does not end the tool loop.  Every tool call of a response, failed
\* or not, has exactly one tool message appended, which carries the call's
\* id and, for a failed call, the error text; the calls after it in the
\* response are run next, and after the last call of a pass before the 6th
\* the model is called again in the next pass.
C25_ToolFailureCaptured ==
    [][xpc = "tool_calls" =>
         LET call == Head(tool_queue)
             appended == messages'[Len(messages')]
         IN  /\ Len(messages') = Len(messages) + 1
             /\ SubSeq(messages', 1, Len(messages)) = messages
             /\ appended.role = "tool"
             /\ appended.tool_call_id = call.id
             /\ appended.content \in {"tool_output", "Error executing",
                                      "Error: Unknown tool"}
             /\ (call.name \notin {"web_search", "execute_python"}
                   => appended.content = "Error: Unknown tool")
             /\ tool_queue' = Tail(tool_queue)
             /\ error' = "none"
             /\ IF Len(tool_queue) > 1
                THEN xpc' = "tool_calls" /\ round' = round
                ELSE IF round < 6
                THEN xpc' = "call_with_tools" /\ round' = round + 1
                ELSE xpc' = "structure"]_vars

\* The first tool call of pass 2 raised; the second call of that pass was
\* run and the model was called again in pass 3.
C25_Witness ==
    /\ round = 3
    /\ provider_calls.with_tools = 3
    /\ \E i \in 1..(Len(messages) - 2) :
         /\ messages[i].role = "tool"
         /\ messages[i].tool_call_id = 21
         /\ messages[i].content = "Error executing"
         /\ messages[i + 1].role = "tool"
         /\ messages[i + 1].tool_call_id = 22
         /\ messages[i + 1].content = "tool_output"
         /\ messages[i + 2].role = "ai"


\* The outputs of agent a as the lines that show them.
Shown(outputs, a) ==
    [i \in 1..Len(OutsOf(outputs, a)) |->
        [kind |-> "output", agent |-> a, out |-> OutsOf(outputs, a)[i], n |-> 0]]

Invocations == {"A", "B"}

\* The model answers of these runs: a plan of the full length with rotating
\* agents or a plan of two steps for one agent; the researcher or
\* synthesize as next_agent; a review that accepts or one that asks for a
\* retry.
PairPlans ==
    { MkSubtasks([i \in 1..MAX_PLAN_STEPS |-> StrideAgent(1, i)]),
      MkSubtasks([i \in 1..2 |-> StrideAgent(0, i)]) }

PairDecisions ==
    [next_agent : {"researcher", "synthesize"}, task_brief : {Brief("task_brief", 0)}]

PairReviews ==
    { [quality |-> "good", feedback |-> "provider", should_retry |-> FALSE,
       retry_instructions |-> "None"],
      [quality |-> "needs_retry", feedback |-> "provider", should_retry |-> TRUE,
       retry_instructions |-> "None"] }

\* run: before get_graph is called; initial_state as run builds it.
InitialState ==
    [pc |-> "get_graph", built |-> 0, graph |-> 0,
     task |-> "task", plan |-> NoPlan, current_step |-> 0,
     next_agent |-> "researcher", current_task_brief |-> Brief("empty", 0),
     agent_outputs |-> << >>, iteration_count |-> 0, retry_count |-> 0,
     last_review |-> NoReview, final_output |-> ""]

ProcInit ==
    /\ invocations = [i \in Invocations |-> InitialState]
    /\ compiled_graph = 0
    /\ builds = 0
    /\ error = "none"
    /\ to_build = << >>
    /\ nodes = Agents
    /\ running = "none"
    /\ xpc = "idle"
    /\ messages = << >>
    /\ round = 0
    /\ tool_queue = << >>
    /\ raw = NoRaw
    /\ provider_calls = [with_tools |-> 0, structured |-> 0]
    /\ executed = [by |-> "none", raw |-> NoRaw]
    /\ pc = "idle"
    /\ task = "task"
    /\ plan = NoPlan
    /\ current_step = 0
    /\ next_agent = "researcher"
    /\ current_task_brief = Brief("empty", 0)
    /\ agent_outputs = << >>
    /\ iteration_count = 0
    /\ retry_count = 0
    /\ last_review = NoReview
    /\ final_output = ""
    /\ tier = "none"
    /\ reviewed = NoOutput
    /\ provider_review = NoReview
    /\ llm_calls = [planner |-> 0, router |-> 0, reviewer |-> 0, synthesizer |-> 0]
    /\ returned_plan = << >>
    /\ last_produced = NoOutput
    /\ since_advance = 0
    /\ invoked = [a \in Agents |-> 0]
    /\ granted = 0

\* What a step of one call leaves alone.
procRest == << runVars, error, to_build, nodes, running, xpc, messages, round,
               tool_queue, raw, provider_calls, executed >>

\* Variant: agent_outputs is one dict of the process, shared by the calls.
Owned_SharedOutputs(states, i, new) ==
    [j \in DOMAIN states |->
        IF j = i THEN new
        ELSE [states[j] EXCEPT !.agent_outputs = new.agent_outputs]]

\* The state of call i after a step: initial_state is a dict built inside
\* run, the delta of a node is merged into the state graph.invoke was
\* handed, and agent_node copies the dict and the list it extends.
Owned(states, i, new) == [states EXCEPT ![i] = new]

\* get_graph: if _compiled_graph is None
GetGraphCheck(i) ==
    /\ invocations[i].pc = "get_graph"
    /\ invocations' = Owned(invocations, i,
         [invocations[i] EXCEPT
            !.pc = IF compiled_graph = 0 THEN "build_graph" ELSE "return_graph"])
    /\ UNCHANGED << compiled_graph, builds, procRest >>

\* get_graph: build_graph() is evaluated; each call makes a new graph.
GetGraphBuild(i) ==
    /\ invocations[i].pc = "build_graph"
    /\ builds' = builds + 1
    /\ invocations' = Owned(invocations, i,
         [invocations[i] EXCEPT !.built = builds + 1, !.pc = "store_graph"])
    /\ UNCHANGED << compiled_graph, procRest >>

\* get_graph: _compiled_graph = <the graph built>
GetGraphStore(i) ==
    /\ invocations[i].pc = "store_graph"
    /\ compiled_graph' = invocations[i].built
    /\ invocations' = Owned(invocations, i,
         [invocations[i] EXCEPT !.pc = "return_graph"])
    /\ UNCHANGED << builds, procRest >>

\* get_graph: return _compiled_graph; run goes on to graph.invoke.
GetGraphReturn(i) ==
    /\ invocations[i].pc = "return_graph"
    /\ invocations' = Owned(invocations, i,
         [invocations[i] EXCEPT !.graph = compiled_graph, !.pc = "plan"])
    /\ UNCHANGED << compiled_graph, builds, procRest >>

\* plan_node on the state of call i.
InvokePlan(i) ==
    /\ invocations[i].pc = "plan"
    /\ \E p \in PairPlans :
         invocations' = Owned(invocations, i,
           [invocations[i] EXCEPT
              !.plan = [goal |-> "goal", subtasks |-> Truncate(p)],
              !.current_step = 0,
              !.iteration_count = 0,
              !.retry_count = 0,
              !.agent_outputs = << >>,
              !.pc = GraphEdge("plan")])
    /\ UNCHANGED << compiled_graph, builds, procRest >>

\* route_node and the conditional edge on the state of call i.
InvokeRoute(i) ==
    /\ invocations[i].pc = "route"
    /\ \E d \in PairDecisions :
         LET st == invocations[i]
             delta == route_node(st.iteration_count, st.plan, st.current_step,
                                 st.last_review, d)
         IN  invocations' = Owned(invocations, i,
               [st EXCEPT
                  !.next_agent = delta.next_agent,
                  !.current_task_brief = delta.current_task_brief,
                  !.iteration_count = delta.iteration_count,
                  !.pc = route_conditional_edge(delta.next_agent)])
    /\ UNCHANGED << compiled_graph, builds, procRest >>

\* agent_node on the state of call i.
InvokeWorker(i) ==
    /\ invocations[i].pc \in Agents
    /\ LET st == invocations[i]
       IN  invocations' = Owned(invocations, i,
             [st EXCEPT
                !.agent_outputs = AppendOutput(st.agent_outputs, st.pc,
                                               st.iteration_count + 1),
                !.iteration_count = NextIteration(st.iteration_count),
                !.pc = GraphEdge(st.pc)])
    /\ UNCHANGED << compiled_graph, builds, procRest >>

\* review_node on the state of call i.
InvokeReview(i) ==
    /\ invocations[i].pc = "review"
    /\ \E r \in PairReviews :
         LET st == invocations[i]
             delta == review_node(st.iteration_count, st.retry_count,
                                  st.current_step, r)
         IN  invocations' = Owned(invocations, i,
               [st EXCEPT
                  !.last_review = delta.last_review,
                  !.retry_count = delta.retry_count,
                  !.current_step = delta.current_step,
                  !.pc = GraphEdge("review")])
    /\ UNCHANGED << compiled_graph, builds, procRest >>

\* synthesize_node on the state of call i.
InvokeSynthesize(i) ==
    /\ invocations[i].pc = "synthesize"
    /\ invocations' = Owned(invocations, i,
         [invocations[i] EXCEPT !.final_output = "final",
                                !.pc = GraphEdge("synthesize")])
    /\ UNCHANGED << compiled_graph, builds, procRest >>

ProcNext ==
    \E i \in Invocations :
        \/ GetGraphCheck(i)
        \/ GetGraphBuild(i)
        \/ GetGraphStore(i)
        \/ GetGraphReturn(i)
        \/ InvokePlan(i)
        \/ InvokeRoute(i)
        \/ InvokeWorker(i)
        \/ InvokeReview(i)
        \/ InvokeSynthesize(i)

ProcSpec == ProcInit /\ [][ProcNext]_vars


C28_GraphSingleton ==
    /\ builds <= 1
    /\ \A i, j \in Invocations :
          (invocations[i].graph # 0 /\ invocations[j].graph # 0)
            => invocations[i].graph = invocations[j].graph


\* C29: when each of the 6 responses asked for tools, so that the loop
\* ran out of passes, what _call_with_tools returns is the content of the
\* last message of the transcript, not the rendering of the whole message.
C29_RoundLimitContent ==
    (/\ xpc \in {"structure", "done"}
     /\ provider_calls.with_tools = 6
     /\ messages[Len(messages)].role = "tool")
      => raw = [kind |-> "content", msg |-> Len(messages)]

\* C30: a worker invocation with tools makes exactly one call of
\* llm_structured, after the tool loop has returned, and returns the
\* answer of that call; with the 1 to 6 calls of the tool loop it makes
\* between 2 and 7 model calls.
C30_OneStructuringCall ==
    /\ [](provider_calls.structured <= 1)
    /\ []((running \in {"researcher", "coder"} /\ xpc = "done")
            => /\ provider_calls.structured = 1
               /\ provider_calls.with_tools \in 1..6
               /\ provider_calls.with_tools + provider_calls.structured \in 2..7
               /\ executed.by = "llm_structured"
               /\ executed.raw = raw
               /\ raw.kind # "none")
    /\ []((running \in {"researcher", "coder"} /\ xpc # "done")
            => (provider_calls.structured = 0 /\ executed.by = "none"))
    /\ [][(/\ running \in {"researcher", "coder"}
           /\ provider_calls'.structured # provider_calls.structured)
          => /\ xpc = "structure"
             /\ raw.kind # "none"
             /\ tool_queue = << >>
             /\ provider_calls'.with_tools = provider_calls.with_tools
             /\ xpc' = "done"]_vars

\* The coder's tool loop used its 6 passes; the structuring call was the
\* 7th model call.
C30_Witness ==
    /\ running = "coder"
    /\ xpc = "done"
    /\ provider_calls = [with_tools |-> 6, structured |-> 1]
    /\ executed.by = "llm_structured"
    /\ executed.raw.msg = Len(messages)


\* ------------------------------------------------------------------------
\* Frame and counting properties of the loop
\* ------------------------------------------------------------------------
\* C31: a review, on the fast path or delegated, leaves iteration_count,
\* agent_outputs, plan, next_agent and current_task_brief (and task and
\* final_output) as they were; only last_review, retry_count and
\* current_step may differ after it.
C31_ReviewFrame ==
    [][pc = "review"
       => UNCHANGED << iteration_count, agent_outputs, plan, next_agent,
                       current_task_brief, task, final_output >>]_vars

\* A delegated review has granted a retry of the first step: the three
\* keys of its delta changed and the worker's output, the count, the
\* dispatch and the brief are those the worker left.
C31_Witness ==
    /\ pc = "route"
    /\ provider_review # NoReview
    /\ last_review.should_retry
    /\ retry_count = 1
    /\ current_step = 0
    /\ iteration_count = 1
    /\ TotalOutputs(agent_outputs) = 1
    /\ next_agent \in Agents
    /\ current_task_brief = Brief("task_brief", 0)


\* C32: after planning iteration_count never decreases; it changes in a
\* worker node only, by exactly 1 for each invocation. A worker node
\* changes iteration_count and the list of its own agent in agent_outputs,
\* to which it appends one entry: current_step, retry_count, last_review,
\* plan, next_agent, current_task_brief and the lists of the other agents
\* are as before.
C32_IterationCountFrame ==
    [][/\ pc # "plan" => iteration_count' >= iteration_count
       /\ (pc # "plan" /\ iteration_count' # iteration_count) => pc \in Agents
       /\ pc \in Agents
            => /\ iteration_count' = iteration_count + 1
               /\ UNCHANGED << current_step, retry_count, last_review, plan,
                               next_agent, current_task_brief, task,
                               final_output >>
               /\ Len(OutsOf(agent_outputs', pc))
                    = Len(OutsOf(agent_outputs, pc)) + 1
               /\ IsPrefix(OutsOf(agent_outputs, pc), OutsOf(agent_outputs', pc))
               /\ \A a \in Agents \ {pc} :
                    OutsOf(agent_outputs', a) = OutsOf(agent_outputs, a)
               /\ Keys(agent_outputs') = Keys(agent_outputs) \cup {pc}]_vars

\* The coder has run as the third invocation, after a granted retry of the
\* first step and the acceptance of it: the counters and the review the
\* reviews left are untouched and the researcher's list holds its two
\* results.
C32_Witness ==
    /\ pc = "review"
    /\ iteration_count = 3
    /\ current_step = 1
    /\ retry_count = 0
    /\ granted = 1
    /\ last_review # NoReview
    /\ ~last_review.should_retry
    /\ OutsOf(agent_outputs, "researcher") = << 1, 2 >>
    /\ OutsOf(agent_outputs, "coder") = << 3 >>


\* C33: in every state after planning iteration_count is the number of
\* entries over all lists of agent_outputs, and current_step is at most
\* iteration_count.
C33_CountMatchesOutputs ==
    pc # "plan"
      => /\ iteration_count = TotalOutputs(agent_outputs)
         /\ current_step <= iteration_count

\* Three invocations over two agents, one of them a retry: three entries
\* in two lists, and the step behind the count.
C33_Witness ==
    /\ pc = "route"
    /\ iteration_count = 3
    /\ Len(agent_outputs) = 2
    /\ TotalOutputs(agent_outputs) = 3
    /\ current_step = 2
    /\ granted = 1


\* C34: a granted retry is always honoured. After a review that stores
\* should_retry = true the next node is route; there iteration_count is
\* at most MAX_ITERATIONS - 2 and current_step is less than the length of
\* the plan, so route takes the pending-retry return, calls no model, and
\* the node after it is the worker of the subtask looked up, never
\* synthesize.
C34_GrantedRetryHonoured ==
    /\ []((pc = "route" /\ PendingRetry(last_review))
            => /\ iteration_count <= MAX_ITERATIONS - 2
               /\ current_step < Len(plan.subtasks)
               /\ RouteTier(iteration_count, plan, current_step, last_review)
                    = "retry")
    /\ [][(pc = "review" /\ PendingRetry(last_review')) => pc' = "route"]_vars
    /\ [][(pc = "route" /\ PendingRetry(last_review))
          => /\ tier' = "retry"
             /\ llm_calls' = llm_calls
             /\ pc' \in Agents
             /\ pc' = plan.subtasks[RetryIndex(current_step)].agent
             /\ next_agent' = pc']_vars

\* The last review that may consult the model (iteration_count =
\* MAX_ITERATIONS - 2) granted a retry and route has dispatched the worker
\* for it.
C34_Witness ==
    /\ pc \in Agents
    /\ tier = "retry"
    /\ PendingRetry(last_review)
    /\ iteration_count = MAX_ITERATIONS - 2
    /\ next_agent = pc


\* max(0, MAX_ITERATIONS - 2): the reviews that run below the fast path.
DelegatedReviewBudget ==
    IF MAX_ITERATIONS - 2 > 0 THEN MAX_ITERATIONS - 2 ELSE 0

\* C35: the reviewer model is called only by a review that runs with
\* iteration_count <= MAX_ITERATIONS - 2, so a run makes at most
\* max(0, MAX_ITERATIONS - 2) reviewer calls and grants at most as many
\* retries; the reviews of worker invocations MAX_ITERATIONS - 1 and
\* MAX_ITERATIONS call no model and store the auto-accepted review,
\* advancing the step.
C35_DelegatedReviewBudget ==
    /\ [](/\ llm_calls.reviewer <= DelegatedReviewBudget
          /\ granted <= DelegatedReviewBudget)
    /\ [][(pc = "review" /\ llm_calls'.reviewer # llm_calls.reviewer)
          => iteration_count <= MAX_ITERATIONS - 2]_vars
    /\ [][(pc = "review" /\ granted' # granted)
          => iteration_count <= MAX_ITERATIONS - 2]_vars
    /\ [][(pc = "review"
           /\ iteration_count \in {MAX_ITERATIONS - 1, MAX_ITERATIONS})
          => /\ llm_calls' = llm_calls
             /\ last_review' = AutoAccepted
             /\ retry_count' = 0
             /\ current_step' = current_step + 1]_vars

\* Every review below the fast path consulted the model, and the review
\* of the last invocation the ceiling allows was auto-accepted.
C35_Witness ==
    /\ pc = "route"
    /\ iteration_count = MAX_ITERATIONS
    /\ last_review = AutoAccepted
    /\ llm_calls.reviewer = DelegatedReviewBudget
    /\ granted >= 1


\* C36: whenever route takes the pending-retry return the plan is set and
\* max(0, current_step - 1) is an index of plan.subtasks (at least 0 and
\* less than its length; RetryIndex is that index plus 1 in the 1-indexed
\* sequence), so the lookup is defined.
C36_RetryIndexValid ==
    (/\ pc = "route"
     /\ RouteTier(iteration_count, plan, current_step, last_review) = "retry")
      => /\ plan # NoPlan
         /\ RetryIndex(current_step) - 1 >= 0
         /\ RetryIndex(current_step) - 1 < Len(plan.subtasks)
         /\ RetryIndex(current_step) \in DOMAIN plan.subtasks

\* Route is about to take the pending-retry return for the last step of
\* a plan of several steps.
C36_Witness ==
    /\ pc = "route"
    /\ RouteTier(iteration_count, plan, current_step, last_review) = "retry"
    /\ Len(plan.subtasks) >= 2
    /\ current_step = Len(plan.subtasks) - 1

====
